---- MODULE Spec2Model ----
(***************************************************************************)
(* Model of the offers service client (client.go): construction            *)
(* (NewClient), the seven forwarding operations, Close, and the per-call   *)
(* context built by contextWithOptions.  The gRPC connection, the          *)
(* generated stub, the context package and the environment are modelled    *)
(* by what the client can observe of them.                                 *)
(* Time is counted in whole seconds.                                       *)
(***************************************************************************)
EXTENDS Integers, Sequences, FiniteSets, TLC

\* ---------------------------------------------------------------- bounds
\* Last instant of the modelled clock.
MaxTime == 1
\* Forwarding calls started in one behaviour.
MaxCalls == 2
\* Calls of Close in one behaviour.
MaxCloses == 2

\* ------------------------------------------------------- program constants
DEFAULT_SERVICE_PORT == "57051"
DEFAULT_SERVICE_HOST == "127.0.0.1"
defaultDialTimeout == 5
defaultKeepAlive == 30
defaultKeepAliveTimeout == 10
DefaultClientName == "comfforts-offers-client"

\* Go's nil (pointer, interface or error).
Nil == "nil"

\* --------------------------------------------------------------- inputs
\* Goroutines that use the one client concurrently.
Callers == {"g1", "g2"}

\* A time.Duration value of the configuration that a caller sets by hand.
CustomDialTimeout == 1

\* os.Getenv: the value of a variable, "" when it is not set.
Getenv(v) == IF v.set THEN v.val ELSE ""

\* Process environments: each variable unset, set to "", or set to a value.
EnvValues(val) == {[set |-> FALSE, val |-> ""], [set |-> TRUE, val |-> ""],
                   [set |-> TRUE, val |-> val]}

AllEnvironments ==
    [OFFERS_SERVICE_HOST : EnvValues("offers.svc"),
     OFFERS_SERVICE_PORT : EnvValues("6443")]

\* The environment of the behaviours that go on to make calls: neither
\* variable set.
Environments ==
    {e \in AllEnvironments :
        ~e.OFFERS_SERVICE_HOST.set /\ ~e.OFFERS_SERVICE_PORT.set}

\* The ClientOption struct returned by NewDefaultClientOption.
NewDefaultClientOption ==
    [DialTimeout |-> defaultDialTimeout,
     KeepAlive |-> defaultKeepAlive,
     KeepAliveTimeout |-> defaultKeepAliveTimeout,
     Caller |-> ""]

\* ClientOption structs a caller hands to NewClient: the zero value, the
\* defaults, the defaults with a caller name (as the tests' setup does), and
\* structs with a hand-set dial timeout.
AllClientOptions ==
    {[DialTimeout |-> 0, KeepAlive |-> 0, KeepAliveTimeout |-> 0, Caller |-> ""],
     NewDefaultClientOption,
     [NewDefaultClientOption EXCEPT !.Caller = "offers-client-test"],
     [DialTimeout |-> CustomDialTimeout, KeepAlive |-> 0, KeepAliveTimeout |-> 0,
      Caller |-> ""],
     [NewDefaultClientOption EXCEPT !.DialTimeout = CustomDialTimeout,
                                    !.Caller = "offers-client-test"]}

\* The structs of the behaviours that go on to make calls: the zero value,
\* the tests' setup, and a hand-set dial timeout without a caller name.
ClientOptions ==
    {o \in AllClientOptions :
        \/ o.DialTimeout = 0
        \/ o.DialTimeout = defaultDialTimeout /\ o.Caller # ""
        \/ o.DialTimeout = CustomDialTimeout /\ o.Caller = ""}

\* Outcomes of config.SetupTLSConfig: a TLS configuration or an error.
TLSOutcomes ==
    {[cfg |-> "tlsConfig", err |-> Nil], [cfg |-> Nil, err |-> "tls: no client cert"]}

\* Errors of grpc.Dial; the library's error text carries no address.
DialErrors == {"grpc: dial failed"}

\* ------------------------------------------------------------- contexts
\* A deadline: absent, or an instant.
NoDeadline == [has |-> FALSE, at |-> 0]
DeadlineAt(t) == [has |-> TRUE, at |-> t]

\* The earlier of two deadlines.
Earlier(d1, d2) ==
    IF ~d1.has THEN d2
    ELSE IF ~d2.has THEN d1
    ELSE IF d1.at <= d2.at THEN d1 ELSE d2

\* ctx.Err() of a context with the given deadline at instant t, when nothing
\* else has ended it.
Expired(deadline, t) == deadline.has /\ deadline.at <= t

\* Base contexts a caller passes: context.Background(), one with a deadline
\* of its own, one that is cancelled already.
Background == [deadline |-> NoDeadline, err |-> Nil]
WithDeadline(t) == [deadline |-> DeadlineAt(t), err |-> Nil]
Cancelled == [deadline |-> NoDeadline, err |-> "Canceled"]

\* WithTimeout on context.Background() instead of the caller's context.
WithTimeoutDetached(parent, d, t) ==
    [deadline |-> DeadlineAt(t + d),
     err |-> IF Expired(DeadlineAt(t + d), t) THEN "DeadlineExceeded" ELSE Nil,
     md |-> <<>>]

\* context.WithTimeout(parent, d) at instant t: the child's deadline is the
\* earlier of the parent's and t + d; a parent that has ended ends the child
\* with its own error, and a deadline already reached ends it with
\* DeadlineExceeded.
WithTimeout(parent, d, t) ==
    LET dl == Earlier(parent.deadline, DeadlineAt(t + d))
    IN [deadline |-> dl,
        err |-> IF parent.err # Nil THEN parent.err
                ELSE IF Expired(dl, t) THEN "DeadlineExceeded"
                ELSE Nil,
        md |-> <<>>]

\* metadata.NewOutgoingContext(ctx, metadata.New({"service-client": caller})).
NewOutgoingContext(ctx, caller) ==
    [ctx EXCEPT !.md = <<[key |-> "service-client", val |-> caller]>>]

\* contextWithOptions: the context a forwarding operation hands to the stub.
contextWithOptions(ctx, opts, t) ==
    LET c == WithTimeout(ctx, opts.DialTimeout, t)
    IN IF opts.Caller # "" THEN NewOutgoingContext(c, opts.Caller) ELSE c

\* The cancel function WithTimeout returned: it ends the context with
\* Canceled unless the context has ended already.
cancel(ctx) == [ctx EXCEPT !.err = IF @ = Nil THEN "Canceled" ELSE @]

\* ---------------------------------------------------------------- state
VARIABLES
    env,         \* the process environment
    given,       \* the ClientOption struct as the caller built it
    clientOpts,  \* the caller's ClientOption struct, which NewClient keeps by pointer
    ncRet,       \* what NewClient returned, once it was called
    ofc,         \* the offersClient struct NewClient built, if any
    conn,        \* the grpc.ClientConn
    dialed,      \* the targets grpc.Dial was called with, in order
    log,         \* the records written to the logger
    calls,       \* per caller, the forwarding call it is in
    timers,      \* deadline resources created by WithTimeout and not yet released
    started,     \* forwarding calls started so far
    now,         \* the clock
    lastReturn,  \* what the operation that returned in the step just taken
                 \* handed to its caller; NoReturn after any other step
    closeRet,    \* what the last Close returned: "none" before any
    closes       \* calls of Close so far

vars == <<env, given, clientOpts, ncRet, ofc, conn, dialed, log, calls, timers,
          started, now, lastReturn, closeRet, closes>>

\* NewClient was not called yet.
NotCalled == [called |-> FALSE, client |-> Nil, err |-> Nil]

\* No offersClient struct was built.
NoClient == [client |-> Nil, conn |-> Nil, opts |-> Nil]

\* The (response, error) pair of no call.
NoResult == [resp |-> Nil, err |-> Nil]

\* A caller that is in no call.
IdleCall ==
    [pc |-> "idle", op |-> Nil, req |-> Nil, opts |-> <<>>, start |-> 0,
     base |-> Background, baseErr |-> Nil,
     ctx |-> [deadline |-> NoDeadline, err |-> Nil, md |-> <<>>],
     inv |-> <<>>]

\* No operation returned in the step just taken.
NoReturn ==
    [returned |-> FALSE, invocations |-> 0, ctxErr |-> Nil, res |-> NoResult,
     ret |-> NoResult]

InitWith(envs, options) ==
    /\ env \in envs
    /\ clientOpts \in options
    /\ given = clientOpts
    /\ ncRet = NotCalled
    /\ ofc = NoClient
    /\ conn = [state |-> "none", target |-> ""]
    /\ dialed = <<>>
    /\ log = <<>>
    /\ calls = [c \in Callers |-> IdleCall]
    /\ timers = 0
    /\ started = 0
    /\ now = 0
    /\ lastReturn = NoReturn
    /\ closeRet = "none"
    /\ closes = 0

Init == InitWith(Environments, ClientOptions)

\* Every environment and every struct, for the behaviours of construction
\* and shutdown alone.
InitConstruct == InitWith(AllEnvironments, AllClientOptions)

\* ----------------------------------------------------------- construction
\* serviceHost with a fallback that applies only when the port is unset too.
serviceHostJoint(e) ==
    IF Getenv(e.OFFERS_SERVICE_HOST) = "" /\ Getenv(e.OFFERS_SERVICE_PORT) = ""
    THEN DEFAULT_SERVICE_HOST
    ELSE Getenv(e.OFFERS_SERVICE_HOST)

\* The port and the host NewClient resolves from the environment.
servicePort(e) ==
    IF Getenv(e.OFFERS_SERVICE_PORT) = ""
    THEN DEFAULT_SERVICE_PORT
    ELSE Getenv(e.OFFERS_SERVICE_PORT)

serviceHost(e) ==
    IF Getenv(e.OFFERS_SERVICE_HOST) = ""
    THEN DEFAULT_SERVICE_HOST
    ELSE Getenv(e.OFFERS_SERVICE_HOST)

\* fmt.Sprintf("%s:%s", serviceHost, servicePort): the target NewClient dials.
serviceAddr(e) == serviceHost(e) \o ":" \o servicePort(e)

\* applyDefaults without the default caller name.
applyNoDefaults(opts) == opts

\* The configuration NewClient leaves in the caller's struct.
applyDefaults(opts) ==
    [opts EXCEPT !.Caller = IF @ = "" THEN DefaultClientName ELSE @]

\* tlsFailure with the cause replaced by an error of the client's own.
tlsFailureOpaque(err) ==
    [rec |-> [level |-> "error", msg |-> "error setting offers service client TLS",
              fields |-> [error |-> err]],
     ret |-> [called |-> TRUE, client |-> Nil, err |-> "offers client: setup failed"]]

\* The log record and return value of NewClient when TLS setup fails.
tlsFailure(err) ==
    [rec |-> [level |-> "error", msg |-> "error setting offers service client TLS",
              fields |-> [error |-> err]],
     ret |-> [called |-> TRUE, client |-> Nil, err |-> err]]

\* The log record and return value of NewClient when grpc.Dial fails.
dialFailure(err) ==
    [rec |-> [level |-> "error", msg |-> "offers client failed to connect",
              fields |-> [error |-> err]],
     ret |-> [called |-> TRUE, client |-> Nil, err |-> err]]

NewClient ==
    /\ ~ncRet.called
    /\ clientOpts' = applyDefaults(clientOpts)
    /\ \E tls \in TLSOutcomes :
         IF tls.err # Nil
         THEN /\ log' = Append(log, tlsFailure(tls.err).rec)
              /\ ncRet' = tlsFailure(tls.err).ret
              /\ UNCHANGED <<ofc, conn, dialed>>
         ELSE /\ dialed' = Append(dialed, serviceAddr(env))
              /\ \E dialErr \in DialErrors \cup {Nil} :
                   IF dialErr # Nil
                   THEN /\ log' = Append(log, dialFailure(dialErr).rec)
                        /\ ncRet' = dialFailure(dialErr).ret
                        /\ UNCHANGED <<ofc, conn>>
                   ELSE /\ conn' = [state |-> "open", target |-> serviceAddr(env)]
                        /\ log' = Append(log,
                               [level |-> "info", msg |-> "offers client connected",
                                fields |-> [host |-> serviceHost(env),
                                            port |-> servicePort(env)]])
                        /\ ofc' = [client |-> "stub", conn |-> "conn",
                                   opts |-> "clientOpts"]
                        /\ ncRet' = [called |-> TRUE, client |-> "ofc", err |-> Nil]
    /\ UNCHANGED <<env, given, calls, timers, started, now, lastReturn, closeRet, closes>>

\* ------------------------------------------------------------ forwarding
\* The typed response of each remote operation.
ResponseType(op) ==
    CASE op = "GetOfferStatuses" -> "OfferStatusesResponse"
      [] op = "GetOfferTypes" -> "OfferTypesResponse"
      [] op = "GetOffers" -> "OffersResponse"
      [] op = "DeleteOffer" -> "DeleteResponse"
      [] OTHER -> "OfferResponse"

\* Status codes the remote service or the transport answers a call with.
RemoteErrors == {"InvalidArgument", "AlreadyExists", "NotFound"}

\* What the remote service can answer to an invocation that reaches it.
RemoteOutcomes(op) ==
    {[resp |-> ResponseType(op), err |-> Nil]}
        \cup {[resp |-> Nil, err |-> e] : e \in RemoteErrors}

\* What the stub can return for caller c's invocation in the current state:
\* the context's error once the context has ended, the connection's closing
\* error once the connection is closed, the remote answer otherwise.
StubOutcomes(c) ==
    LET ended == IF calls[c].ctx.err # Nil
                 THEN {[resp |-> Nil, err |-> calls[c].ctx.err]}
                 ELSE {}
        closing == IF conn.state = "closed"
                   THEN {[resp |-> Nil, err |-> "ErrClientConnClosing"]}
                   ELSE {}
    IN IF ended \cup closing # {}
       THEN ended \cup closing
       ELSE RemoteOutcomes(calls[c].op)

\* stubArgs with the caller's call options passed on.
stubArgsWithOpts(op, ctx, req, opts) ==
    [op |-> op, deadline |-> ctx.deadline, md |-> ctx.md, req |-> req,
     callopts |-> opts]

\* The arguments of the one stub call a forwarding operation makes:
\* ofc.client.<Op>(ctx, req).
stubArgs(op, ctx, req, opts) ==
    [op |-> op, deadline |-> ctx.deadline, md |-> ctx.md, req |-> req,
     callopts |-> <<>>]

\* forwardResult with the error swallowed.
forwardResultSwallowed(out) == [resp |-> out.resp, err |-> Nil]

\* "return ofc.client.<Op>(ctx, req)": what the operation returns for what
\* the stub returned.
forwardResult(out) == out

\* The part of a forwarding operation up to the point where the stub blocks
\* on the network: contextWithOptions, defer cancel(), the stub call.
Forward(c, op, req, opts, base) ==
    /\ ofc # NoClient
    /\ calls[c].pc = "idle"
    /\ started < MaxCalls
    /\ LET ctx == contextWithOptions(base, clientOpts, now)
       IN calls' = [calls EXCEPT ![c] =
              [pc |-> "invoked", op |-> op, req |-> req, opts |-> opts,
               start |-> now, base |-> base, baseErr |-> base.err, ctx |-> ctx,
               inv |-> <<stubArgs(op, ctx, req, opts)>>]]
    /\ timers' = timers + 1
    /\ started' = started + 1
    /\ lastReturn' = NoReturn
    /\ UNCHANGED <<env, given, clientOpts, ncRet, ofc, conn, dialed, log, now, closeRet,
                   closes>>

\* What a caller passes to an operation: a request, a list of call options
\* and a base context.
CallInputs ==
    {<<"reqA", <<>>, Background>>,
     <<"reqA", <<"WaitForReady">>, Background>>,
     <<"reqB", <<>>, WithDeadline(now + 1)>>,
     <<"reqB", <<"WaitForReady">>, Cancelled>>}

GetOfferStatuses(c) ==
    \E in \in CallInputs : Forward(c, "GetOfferStatuses", in[1], in[2], in[3])

GetOfferTypes(c) ==
    \E in \in CallInputs : Forward(c, "GetOfferTypes", in[1], in[2], in[3])

CreateOffer(c) ==
    \E in \in CallInputs : Forward(c, "CreateOffer", in[1], in[2], in[3])

UpdateOffer(c) ==
    \E in \in CallInputs : Forward(c, "UpdateOffer", in[1], in[2], in[3])

GetOffer(c) ==
    \E in \in CallInputs : Forward(c, "GetOffer", in[1], in[2], in[3])

GetOffers(c) ==
    \E in \in CallInputs : Forward(c, "GetOffers", in[1], in[2], in[3])

DeleteOffer(c) ==
    \E in \in CallInputs : Forward(c, "DeleteOffer", in[1], in[2], in[3])

\* deferredCancel that runs on the success path only.
cancelOnSuccess(c, out) ==
    IF out.err = Nil
    THEN [ctx |-> cancel(calls[c].ctx), released |-> 1]
    ELSE [ctx |-> calls[c].ctx, released |-> 0]

\* The deferred cancel() of caller c's operation: the context's new state and
\* the number of deadline resources it releases.
deferredCancel(c, out) ==
    [ctx |-> cancel(calls[c].ctx), released |-> 1]

\* Return with one cancel function shared by all calls of the client: it ends
\* the context of every call in flight.
ReturnSharedCancel(c) ==
    /\ calls[c].pc = "invoked"
    /\ \E out \in StubOutcomes(c) :
         /\ lastReturn' = [returned |-> TRUE,
                           invocations |-> Len(calls[c].inv),
                           ctxErr |-> cancel(calls[c].ctx).err,
                           res |-> out,
                           ret |-> out]
         /\ timers' = timers - 1
    /\ calls' = [d \in Callers |->
                   IF d = c THEN IdleCall
                   ELSE [calls[d] EXCEPT !.ctx = IF calls[d].pc = "invoked"
                                                 THEN cancel(@) ELSE @]]
    /\ UNCHANGED <<env, given, clientOpts, ncRet, ofc, conn, dialed, log, started, now,
                   closeRet, closes>>

\* The rest of a forwarding operation: the stub returns, the deferred cancel
\* runs, the operation returns what the stub returned and its frame is gone.
Return(c) ==
    /\ calls[c].pc = "invoked"
    /\ \E out \in StubOutcomes(c) :
         /\ lastReturn' = [returned |-> TRUE,
                           invocations |-> Len(calls[c].inv),
                           ctxErr |-> deferredCancel(c, out).ctx.err,
                           res |-> out,
                           ret |-> forwardResult(out)]
         /\ timers' = timers - deferredCancel(c, out).released
    /\ calls' = [calls EXCEPT ![c] = IdleCall]
    /\ UNCHANGED <<env, given, clientOpts, ncRet, ofc, conn, dialed, log, started, now,
                   closeRet, closes>>

\* ------------------------------------------------------------ environment
\* A context's error after the clock reached t, given its parent's error.
errAt(ctx, parentErr, t) ==
    IF ctx.err # Nil THEN ctx.err
    ELSE IF parentErr # Nil THEN parentErr
    ELSE IF Expired(ctx.deadline, t) THEN "DeadlineExceeded"
    ELSE Nil

\* The clock advances; the contexts of the calls in flight whose deadline is
\* reached end with DeadlineExceeded.
Tick ==
    /\ now < MaxTime
    /\ now' = now + 1
    /\ calls' = [c \in Callers |->
         IF calls[c].pc # "invoked" THEN calls[c]
         ELSE LET be == errAt([deadline |-> calls[c].base.deadline,
                               err |-> calls[c].baseErr], Nil, now + 1)
              IN [calls[c] EXCEPT !.baseErr = be,
                                  !.ctx.err = errAt(calls[c].ctx, be, now + 1)]]
    /\ lastReturn' = NoReturn
    /\ UNCHANGED <<env, given, clientOpts, ncRet, ofc, conn, dialed, log, timers, started,
                   closeRet, closes>>

\* The caller cancels the base context it passed to its call in flight; the
\* cancellation reaches the contexts derived from it.
CancelBase(c) ==
    /\ calls[c].pc = "invoked"
    /\ calls[c].baseErr = Nil
    /\ calls' = [calls EXCEPT ![c].baseErr = "Canceled",
                              ![c].ctx.err = errAt(calls[c].ctx, "Canceled", now)]
    /\ lastReturn' = NoReturn
    /\ UNCHANGED <<env, given, clientOpts, ncRet, ofc, conn, dialed, log, timers, started,
                   now, closeRet, closes>>

\* ---------------------------------------------------------------- shutdown
\* grpc.ClientConn.Close: closes an open connection; on a connection already
\* closed it changes nothing and returns ErrClientConnClosing.
connClose(cn) ==
    IF cn.state = "open"
    THEN [conn |-> [cn EXCEPT !.state = "closed"], err |-> Nil]
    ELSE [conn |-> cn, err |-> "ErrClientConnClosing"]

\* closeResult with the failure logged but not returned.
closeResultSwallowed(err) ==
    IF err # Nil
    THEN [ret |-> Nil,
          recs |-> <<[level |-> "error",
                      msg |-> "error closing offers client connection",
                      fields |-> [error |-> err]]>>]
    ELSE [ret |-> Nil, recs |-> <<>>]

\* What Close returns and logs for what conn.Close returned.
closeResult(err) ==
    IF err # Nil
    THEN [ret |-> err,
          recs |-> <<[level |-> "error",
                      msg |-> "error closing offers client connection",
                      fields |-> [error |-> err]]>>]
    ELSE [ret |-> Nil, recs |-> <<>>]

Close ==
    /\ ofc # NoClient
    /\ closes < MaxCloses
    /\ conn' = connClose(conn).conn
    /\ closeRet' = closeResult(connClose(conn).err).ret
    /\ log' = log \o closeResult(connClose(conn).err).recs
    /\ closes' = closes + 1
    /\ lastReturn' = NoReturn
    /\ UNCHANGED <<env, given, clientOpts, ncRet, ofc, dialed, calls, timers, started, now>>

\* ------------------------------------------------------------ specification
Next ==
    \/ NewClient
    \/ \E c \in Callers : GetOfferStatuses(c)
    \/ \E c \in Callers : GetOfferTypes(c)
    \/ \E c \in Callers : CreateOffer(c)
    \/ \E c \in Callers : UpdateOffer(c)
    \/ \E c \in Callers : GetOffer(c)
    \/ \E c \in Callers : GetOffers(c)
    \/ \E c \in Callers : DeleteOffer(c)
    \/ \E c \in Callers : Return(c)
    \/ \E c \in Callers : CancelBase(c)
    \/ Tick
    \/ Close

Spec == Init /\ [][Next]_vars

NextConstruct ==
    \/ NewClient
    \/ Close

SpecConstruct == InitConstruct /\ [][NextConstruct]_vars

\* ------------------------------------------------------------------ claims
\* The calls in flight.
InFlight == {c \in Callers : calls[c].pc = "invoked"}

\* C1: every forwarding operation makes exactly one invocation of the remote
\* operation of its own name, and returns exactly the (response, error) pair
\* that invocation produced: an error is neither swallowed nor replaced, and
\* no second invocation follows a failure.
C1_OneShotForward ==
    /\ \A c \in InFlight :
         /\ Len(calls[c].inv) = 1
         /\ calls[c].inv[1].op = calls[c].op
         /\ calls[c].inv[1].req = calls[c].req
    /\ lastReturn.returned =>
         /\ lastReturn.invocations = 1
         /\ lastReturn.ret = lastReturn.res

\* A call returned the remote service's already-exists error.
C1_Witness ==
    /\ lastReturn.returned
    /\ lastReturn.res.err = "AlreadyExists"
    /\ lastReturn.ret.err = "AlreadyExists"

\* C2: every operation releases the deadline resource it created before it
\* returns, on every exit path, so the deadline resources outstanding are
\* exactly those of the calls in flight, and the context of a call that
\* returned has ended.
C2_DeadlineReleased ==
    /\ timers = Cardinality(InFlight)
    /\ lastReturn.returned => lastReturn.ctxErr # Nil

\* Every call has returned, the last one on the caller's cancellation, and no
\* deadline resource is outstanding.
C2_Witness ==
    /\ started = MaxCalls
    /\ InFlight = {}
    /\ lastReturn.ret.err = "Canceled"
    /\ timers = 0

\* The caller name of the metadata: the one given at construction, the
\* default name when none was given.
ExpectedCaller == IF given.Caller = "" THEN "comfforts-offers-client" ELSE given.Caller

\* C3: every remote invocation carries the outgoing metadata entry
\* service-client = <caller>, the caller being the one given in the
\* configuration or the default name when none was given.
C3_CallerMetadata ==
    \A c \in InFlight :
        \A i \in 1..Len(calls[c].inv) :
            calls[c].inv[i].md = <<[key |-> "service-client", val |-> ExpectedCaller]>>

\* An invocation was made by a client built with no caller name, and carries
\* the default name.
C3_Witness ==
    /\ given.Caller = ""
    /\ \E c \in InFlight :
         calls[c].inv[1].md = <<[key |-> "service-client",
                                 val |-> "comfforts-offers-client"]>>

\* The context handed to caller c's invocation expires no later than the dial
\* timeout after the call started and no later than the caller's deadline,
\* has ended once that instant is reached, and has ended when the caller's
\* base context has.
C4_Bounded(c) ==
    /\ calls[c].inv[1].deadline.has
    /\ calls[c].inv[1].deadline.at <= calls[c].start + clientOpts.DialTimeout
    /\ calls[c].base.deadline.has =>
         calls[c].inv[1].deadline.at <= calls[c].base.deadline.at
    /\ now >= calls[c].start + clientOpts.DialTimeout => calls[c].ctx.err # Nil
    /\ calls[c].base.deadline.has /\ now >= calls[c].base.deadline.at =>
         calls[c].ctx.err # Nil
    /\ calls[c].baseErr # Nil => calls[c].ctx.err # Nil
    /\ calls[c].baseErr = "Canceled" /\ now < calls[c].inv[1].deadline.at =>
         calls[c].ctx.err = "Canceled"

\* A call whose context has ended returns that context's error (on an open
\* connection).
C4_EndsWithContextError(c) ==
    calls[c].pc = "invoked" /\ calls'[c].pc = "idle" /\ calls[c].ctx.err # Nil
            /\ conn.state = "open"
        => lastReturn'.ret = [resp |-> Nil, err |-> calls[c].ctx.err]

C5_DefaultsApplied ==
    ncRet.client # Nil =>
        /\ given.DialTimeout = 0 => clientOpts.DialTimeout = 5
        /\ given.KeepAlive = 0 => clientOpts.KeepAlive = 30
        /\ given.KeepAliveTimeout = 0 => clientOpts.KeepAliveTimeout = 10
        /\ given.Caller = "" => clientOpts.Caller = "comfforts-offers-client"
        /\ \A c \in InFlight : calls[c].inv[1].deadline.at > calls[c].start

\* The errors SetupTLSConfig can return.
TLSErrors == {o.err : o \in TLSOutcomes} \ {Nil}

\* NewClient failed on the TLS setup; on the dial.
TLSFailed == ncRet.called /\ dialed = <<>>
DialFailed == ncRet.called /\ dialed # <<>> /\ ncRet.err # Nil

\* The failure was logged with its cause, as the last record.
LoggedCause ==
    /\ log # <<>>
    /\ log[Len(log)].level = "error"
    /\ "error" \in DOMAIN log[Len(log)].fields
    /\ log[Len(log)].fields.error = ncRet.err

\* The failure report names the resolved address: a logged field holds it, or
\* the returned error is not grpc.Dial's own but one that wraps it.
ReportsAddress ==
    \/ \E i \in DOMAIN log :
         /\ log[i].level = "error"
         /\ \/ \E f \in DOMAIN log[i].fields : log[i].fields[f] = serviceAddr(env)
            \/ {"host", "port"} \subseteq DOMAIN log[i].fields
    \/ ncRet.err \notin DialErrors

\* What holds of construction whatever the report of a dial failure says.
C6_Construction ==
    /\ Len(dialed) <= 1
    /\ ncRet.called => (ncRet.client # Nil <=> ncRet.err = Nil)
    /\ ncRet.client = Nil => ofc = NoClient /\ conn.state = "none"
    /\ TLSFailed => ncRet.client = Nil /\ ncRet.err \in TLSErrors /\ LoggedCause
    /\ DialFailed => ncRet.client = Nil /\ ncRet.err \in DialErrors /\ LoggedCause
    /\ ncRet.client # Nil =>
         /\ ofc # NoClient
         /\ conn.target = dialed[1]
         /\ conn.state = "open" \/ (conn.state = "closed" /\ closes > 0)

\* C6 as stated: construction failure is fatal and leaves nothing behind; a
\* TLS failure is returned with its cause and no connection is attempted; a
\* dial failure is reported with the resolved address; a client is returned
\* if and only if the error is nil, bound to exactly one open connection.
C6_Original == C6_Construction /\ (DialFailed => ReportsAddress)

\* C6 as amended: the same, except that a dial failure is reported (logged
\* and returned) as grpc.Dial's own error, without the resolved address.
C6_Amended == C6_Construction /\ (DialFailed => ~ReportsAddress)

\* NewClient failed on the dial, after the TLS setup succeeded.
C6_Witness == DialFailed /\ ncRet.client = Nil /\ dialed = <<serviceAddr(env)>>

\* A close of the connection: Close was called, an open connection is closed
\* and nil returned, a closed one is left alone and the failure returned.
C7_CloseStep ==
    closes' # closes =>
        IF conn.state = "open"
        THEN conn'.state = "closed" /\ closeRet' = Nil
        ELSE conn' = conn /\ closeRet' = "ErrClientConnClosing"

\* A forwarding operation's step (a call starts or returns).
ForwardingStep ==
    \/ started' # started
    \/ \E c \in Callers : calls[c].pc = "invoked" /\ calls'[c].pc = "idle"

\* C7: the connection is created once, by NewClient, and closed once, by
\* Close: no forwarding operation opens, replaces or closes it, a closed
\* connection is never reopened, and Close returns nil when the close
\* succeeds and the close failure otherwise.
C7_ConnectionLifecycle ==
    /\ [](Len(dialed) <= 1)
    /\ [][/\ C7_CloseStep
          /\ ForwardingStep => conn' = conn /\ dialed' = dialed /\ ofc' = ofc
          /\ conn' # conn => (~ncRet.called /\ conn'.state = "open")
                                \/ (closes' # closes /\ conn.state = "open")
          /\ conn.state = "closed" => conn'.state = "closed"]_vars

\* Close was called twice: the connection is closed and the second call
\* returned the close failure.
C7_Witness ==
    /\ conn.state = "closed"
    /\ closes = 2
    /\ closeRet = "ErrClientConnClosing"
    /\ started > 0

\* Caller c's call in flight keeps its deadline, metadata and invocation, and
\* its context ends only for a reason of its own: its base context ended, or
\* its deadline was reached.
C8_Independent(c) ==
    calls[c].pc = "invoked" /\ calls'[c].pc = "invoked" =>
        /\ calls'[c].ctx.deadline = calls[c].ctx.deadline
        /\ calls'[c].ctx.md = calls[c].ctx.md
        /\ calls'[c].inv = calls[c].inv
        /\ calls'[c].ctx.err # calls[c].ctx.err =>
             \/ calls'[c].baseErr # Nil
             \/ Expired(calls[c].ctx.deadline, now')

\* C8: under any interleaving of calls, each call has a context of its own,
\* no forwarding operation writes the configuration, the connection handle or
\* the stub, the configuration stays as construction left it, and ending one
\* call's context never ends or changes another's.
C8_ConcurrentUse ==
    [][/\ ncRet.called => clientOpts' = clientOpts /\ ofc' = ofc
       /\ ForwardingStep => conn' = conn
       /\ \A c \in Callers : C8_Independent(c)]_vars

\* Two calls are in flight, one with its context ended and the other not.
C8_Witness ==
    \E c, d \in InFlight :
        /\ c # d
        /\ calls[c].ctx.err = "Canceled"
        /\ calls[d].ctx.err = Nil

\* The value of an environment variable, or the fallback when it is unset or
\* empty.
OrDefault(v, fallback) == IF v.set /\ v.val # "" THEN v.val ELSE fallback

\* C9: the endpoint NewClient dials is <host>:<port>, host being
\* OFFERS_SERVICE_HOST or 127.0.0.1 when unset or empty, port being
\* OFFERS_SERVICE_PORT or 57051 when unset or empty, each fallback on its
\* own; with neither set the address is 127.0.0.1:57051.
C9_Endpoint ==
    dialed # <<>> =>
        /\ dialed[1] = OrDefault(env.OFFERS_SERVICE_HOST, "127.0.0.1") \o ":"
                           \o OrDefault(env.OFFERS_SERVICE_PORT, "57051")
        /\ ~env.OFFERS_SERVICE_HOST.set /\ ~env.OFFERS_SERVICE_PORT.set =>
             dialed[1] = "127.0.0.1:57051"

\* The host was unset and the port set: the dialled address has the default
\* host and the given port.
C9_Witness ==
    /\ ~env.OFFERS_SERVICE_HOST.set
    /\ env.OFFERS_SERVICE_PORT.val = "6443"
    /\ dialed = <<"127.0.0.1:6443">>

\* C10: the call options a caller passes have no effect: the invocation gets
\* no call options, and two calls of the same operation with the same
\* request and base context at the same instant hand the stub the same
\* arguments whatever their call options.
C10_OptsIgnored ==
    /\ \A c \in InFlight : calls[c].inv[1].callopts = <<>>
    /\ \A c, d \in InFlight :
         /\ calls[c].op = calls[d].op
         /\ calls[c].req = calls[d].req
         /\ calls[c].base = calls[d].base
         /\ calls[c].start = calls[d].start
         => calls[c].inv = calls[d].inv

\* Two calls of one operation are in flight with the same request and base
\* context, one with call options and one without.
C10_Witness ==
    \E c, d \in InFlight :
        /\ calls[c].op = calls[d].op
        /\ calls[c].req = calls[d].req
        /\ calls[c].base = calls[d].base
        /\ calls[c].start = calls[d].start
        /\ calls[c].opts = <<>>
        /\ calls[d].opts # <<>>

====
